---- MODULE Spec2Model ----
(***************************************************************************)
(* Model of the jgd grid datum-shift engine:                               *)
(*   - par/src/main.rs : the offline compiler that turns fixed-width text  *)
(*     records into the sorted binary table;                               *)
(*   - src/grid.rs     : Grid::bilinear and the Mesh3 / MicroSecond types; *)
(*   - src/crs.rs      : the datum objects Tokyo, Tokyo97, Jgd2000, Jgd2011  *)
(*     and src/geodetic.rs : the range check of their constructors.        *)
(* Text lines are sequences of one-character strings.  f64 values are      *)
(* modelled as exact rationals <<numerator, denominator>>, so rounding of  *)
(* IEEE doubles is outside the model.                                      *)
(***************************************************************************)
EXTENDS Integers, Sequences, FiniteSets, TLC

VARIABLES
    stdin,      \* the input of the compiler: the raw lines split(b'\n') yields (see Raw)
    pos,        \* number of raw lines the iterator chain has pulled so far
    stage,      \* "skip_while" until the header line is met, then "body"
    records,    \* the BTreeSet<Record> being collected, then drained by into_iter
    stdout,     \* bytes written to stdout so far
    pc,         \* "idle" | "collect" | "write" | "done" | "panic"
    dots,       \* Grid.dots : the table queried by Grid::bilinear
    degrees,    \* the argument of the last Grid::bilinear call (or NoQuery)
    ret,        \* what that call did: None, Some(shift) or a panic
    datum,      \* crs.rs: the constructor called, its argument and what it returned
    converted,  \* crs.rs: what the conversion method called on the datum returned
    readers     \* the frames of the calls of Grid::bilinear that run concurrently

vars == <<stdin, pos, stage, records, stdout, pc, dots, degrees, ret, datum, converted, readers>>

compilerVars == <<stdin, pos, stage, records, stdout, pc>>

gridVars == <<dots, degrees, ret>>

wrapperVars == <<datum, converted>>

readerVars == <<readers>>

(***************************************************************************)
(* Bounds of the model                                                     *)
(***************************************************************************)
\* longest body (lines after the header) of an input
MaxLines == 3

\* the cells of the tables of the grid model: lat index MinLatIdx..MaxLatIdx,
\* lon index 0..MaxLonIdx
MaxLatIdx == 1

MaxLonIdx == 2

\* a table lacks at most this many records of the cells above
MaxMissing == 2

\* the calls of Grid::bilinear that run at the same time
MaxReaders == 2

MinLatIdx == 0 - 1

(***************************************************************************)
(* Integer widths                                                          *)
(***************************************************************************)
I16Min == 0 - 2^15

I16Max == 2^15 - 1

I32Min == (0 - 2^30) - 2^30

I32Max == (2^30 - 1) + 2^30

InI16(v) == I16Min <= v /\ v <= I16Max

InI32(v) == I32Min <= v /\ v <= I32Max

(***************************************************************************)
(* Characters and text                                                     *)
(***************************************************************************)
CR == "\r"

Digits == <<"0", "1", "2", "3", "4", "5", "6", "7", "8", "9">>

IsDigit(c) == \E i \in 1..10 : Digits[i] = c

DigitVal(c) == (CHOOSE i \in 1..10 : Digits[i] = c) - 1

\* char::is_whitespace, restricted to the characters of the model
IsWhitespace(c) == c \in {" ", CR}

Tail2(s, n) == SubSeq(s, n + 1, Len(s))

\* str::trim_start
RECURSIVE trim_start(_)
trim_start(s) ==
    IF s # <<>> /\ IsWhitespace(s[1]) THEN trim_start(Tail(s)) ELSE s

RECURSIVE DigitsValue(_, _)
DigitsValue(s, acc) ==
    IF s = <<>> THEN acc ELSE DigitsValue(Tail(s), acc * 10 + DigitVal(s[1]))

Err == [ok |-> FALSE]

\* <i64 as FromStr>::from_str : an optional sign, then one or more digits
ParseI64(s) ==
    LET signed == s # <<>> /\ s[1] \in {"+", "-"}
        body == IF signed THEN Tail(s) ELSE s
    IN  IF body = <<>> \/ \E i \in 1..Len(body) : ~IsDigit(body[i])
        THEN Err
        ELSE [ok |-> TRUE,
              val |-> IF signed /\ s[1] = "-" THEN 0 - DigitsValue(body, 0)
                      ELSE DigitsValue(body, 0)]

(***************************************************************************)
(* Record::from_str                                                        *)
(***************************************************************************)
parse_number(line, end) ==
    IF Len(line) < end THEN Err
    ELSE LET n == ParseI64(trim_start(SubSeq(line, 1, end)))
         IN  IF n.ok THEN [ok |-> TRUE, val |-> n.val, rest |-> Tail2(line, end)]
             ELSE Err

parse_meshcode(line, chunk) ==
    LET a == parse_number(line, chunk)
    IN  IF ~a.ok THEN Err
        ELSE LET b == parse_number(a.rest, chunk)
             IN  IF ~b.ok THEN Err
                 ELSE [ok |-> TRUE, lat |-> a.val, lon |-> b.val, rest |-> b.rest]

to_grid(mesh1, mesh2, mesh3) ==
    LET v == mesh1 * 80 + mesh2 * 10 + mesh3
    IN  IF InI16(v) THEN [ok |-> TRUE, val |-> v] ELSE Err

\* parse_diff that steps over the character after the integer part unchecked
parse_diff_unchecked_point(line) ==
    LET d_integer == parse_number(line, 4)
    IN  IF ~d_integer.ok THEN Err
        ELSE IF d_integer.rest = <<>> THEN Err
        ELSE LET d_decimal == parse_number(Tail(d_integer.rest), 5)
             IN  IF ~d_decimal.ok THEN Err
                 ELSE LET sign == 1 - (IF d_integer.val < 0 THEN 1 ELSE 0) * 2
                          v == d_integer.val * 100000 + d_decimal.val * sign
                      IN  IF InI32(v)
                          THEN [ok |-> TRUE, val |-> v, rest |-> d_decimal.rest]
                          ELSE Err

parse_diff(line) ==
    LET d_integer == parse_number(line, 4)
    IN  IF ~d_integer.ok THEN Err
        ELSE IF d_integer.rest = <<>> \/ d_integer.rest[1] # "." THEN Err
        ELSE LET d_decimal == parse_number(Tail(d_integer.rest), 5)
             IN  IF ~d_decimal.ok THEN Err
                 ELSE LET sign == 1 - (IF d_integer.val < 0 THEN 1 ELSE 0) * 2
                          v == d_integer.val * 100000 + d_decimal.val * sign
                      IN  IF InI32(v)
                          THEN [ok |-> TRUE, val |-> v, rest |-> d_decimal.rest]
                          ELSE Err

\* A Record is the tuple <<grid_lat, grid_lon, d_lat_us, d_lon_us>>.
from_str(line) ==
    LET m1 == parse_meshcode(line, 2)
    IN  IF ~m1.ok THEN Err ELSE
    LET m2 == parse_meshcode(m1.rest, 1)
    IN  IF ~m2.ok THEN Err ELSE
    LET m3 == parse_meshcode(m2.rest, 1)
    IN  IF ~m3.ok THEN Err ELSE
    LET grid_lat == to_grid(m1.lat, m2.lat, m3.lat)
        grid_lon == to_grid(m1.lon, m2.lon, m3.lon)
    IN  IF ~grid_lat.ok \/ ~grid_lon.ok THEN Err ELSE
    LET d_lat_us == parse_diff(m3.rest)
    IN  IF ~d_lat_us.ok THEN Err ELSE
    LET d_lon_us == parse_diff(d_lat_us.rest)
    IN  IF ~d_lon_us.ok THEN Err
        ELSE [ok |-> TRUE,
              val |-> <<grid_lat.val, grid_lon.val, d_lat_us.val, d_lon_us.val>>]

(***************************************************************************)
(* #[derive(PartialOrd, Ord)] on Record, and BTreeSet iteration            *)
(***************************************************************************)
RECURSIVE LexLess(_, _)
LexLess(a, b) ==
    IF a = <<>> \/ b = <<>> THEN a = <<>> /\ b # <<>>
    ELSE a[1] < b[1] \/ (a[1] = b[1] /\ LexLess(Tail(a), Tail(b)))

RecordLess(a, b) == LexLess(a, b)

\* the element BTreeSet::into_iter yields next: the least one
IterNext(set) == CHOOSE r \in set : \A o \in set \ {r} : RecordLess(r, o)

\* a map keyed by the cell: a later record replaces the earlier one of its cell
BTreeSetInsert_keyed_by_cell(set, r) ==
    {o \in set : <<o[1], o[2]>> # <<r[1], r[2]>>} \cup {r}

BTreeSetInsert(set, r) == set \cup {r}

(***************************************************************************)
(* Record::to_bytes                                                        *)
(***************************************************************************)
\* iN::to_be_bytes : the same bytes, highest first
RECURSIVE to_be_bytes(_, _)
to_be_bytes(v, n) ==
    IF n = 0 THEN <<>> ELSE to_be_bytes(v \div 256, n - 1) \o <<v % 256>>

\* iN::to_le_bytes for N = 8 * n : the two's-complement bytes, lowest first
RECURSIVE to_le_bytes(_, _)
to_le_bytes(v, n) ==
    IF n = 0 THEN <<>> ELSE <<v % 256>> \o to_le_bytes(v \div 256, n - 1)

to_bytes(r) ==
    to_le_bytes(r[1], 2) \o to_le_bytes(r[2], 2)
        \o to_le_bytes(r[3], 4) \o to_le_bytes(r[4], 4)

(***************************************************************************)
(* f64 as exact rationals <<n, d>> in lowest terms, d > 0                  *)
(***************************************************************************)
Abs(x) == IF x < 0 THEN 0 - x ELSE x

RECURSIVE GCD(_, _)
GCD(a, b) == IF b = 0 THEN a ELSE GCD(b, a % b)

Norm(n, d) ==
    LET g == GCD(Abs(n), Abs(d))
        s == IF d < 0 THEN -1 ELSE 1
    IN  <<(s * n) \div g, (s * d) \div g>>

R(n) == <<n, 1>>

RAdd(a, b) ==
    LET g == GCD(a[2], b[2])
    IN  Norm(a[1] * (b[2] \div g) + b[1] * (a[2] \div g), (a[2] \div g) * b[2])

RNeg(a) == <<0 - a[1], a[2]>>

RSub(a, b) == RAdd(a, RNeg(b))

RMul(a, b) ==
    LET g1 == GCD(Abs(a[1]), b[2])
        g2 == GCD(Abs(b[1]), a[2])
    IN  Norm((a[1] \div g1) * (b[1] \div g2), (a[2] \div g2) * (b[2] \div g1))

RDiv(a, b) == RMul(a, IF b[1] < 0 THEN <<0 - b[2], 0 - b[1]>> ELSE <<b[2], b[1]>>)

RAbs(a) == <<Abs(a[1]), a[2]>>

RLeq(a, b) == a[1] * b[2] <= b[1] * a[2]

\* the integer part, towards zero
Trunc(a) == IF a[1] >= 0 THEN a[1] \div a[2] ELSE 0 - ((0 - a[1]) \div a[2])

\* `x as i16` for a finite float x: truncating and saturating
CastI16(a) ==
    LET t == Trunc(a)
    IN  IF t > I16Max THEN I16Max ELSE IF t < I16Min THEN I16Min ELSE t

(***************************************************************************)
(* coord.rs : units and LatLon                                             *)
(***************************************************************************)
DEGREES == 1

MINUTES == DEGREES * 60

SECS == MINUTES * 60

MILLI_SECS == 3600000

\* x / MICRO_SECS, where MICRO_SECS = MILLI_SECS * 1_000 exceeds 32 bits
DivMicroSecs(x) == RDiv(RDiv(x, R(MILLI_SECS)), R(1000))

LatLon(lat, lon) == [lat |-> lat, lon |-> lon]

LatLonAdd(a, b) == LatLon(RAdd(a.lat, b.lat), RAdd(a.lon, b.lon))

LatLonSub(a, b) == LatLon(RSub(a.lat, b.lat), RSub(a.lon, b.lon))

LatLonMul(a, x) == LatLon(RMul(a.lat, x), RMul(a.lon, x))

LatLonDiv(a, x) == LatLon(RDiv(a.lat, x), RDiv(a.lon, x))

(***************************************************************************)
(* grid.rs : Mesh3, MicroSecond                                            *)
(***************************************************************************)
LAT_SEC == 30

LON_SEC == 45

Mesh3(lat, lon) == [lat |-> lat, lon |-> lon]

\* #[derive(PartialOrd, Ord)] on Mesh3 { lat, lon }
MeshLess(a, b) == a.lat < b.lat \/ (a.lat = b.lat /\ a.lon < b.lon)

\* Mesh3::floor
floor(p) == Mesh3(CastI16(RMul(p.lat, R(120))), CastI16(RMul(p.lon, R(80))))

\* Mesh3::to_degree
Mesh3_to_degree(self) ==
    LatLonDiv(LatLon(RMul(R(self.lat), R(LAT_SEC)), RMul(R(self.lon), R(LON_SEC))),
              R(SECS))

\* diagonal_weight dividing each axis by the extent of the other axis
diagonal_weight_swapped_extent(self, p) ==
    LET d == LatLonSub(p, Mesh3_to_degree(self))
        diff_secs == LatLon(RMul(RAbs(d.lat), R(SECS)), RMul(RAbs(d.lon), R(SECS)))
    IN  LatLon(RDiv(diff_secs.lat, R(LON_SEC)), RDiv(diff_secs.lon, R(LAT_SEC)))

\* Mesh3::diagonal_weight
diagonal_weight(self, p) ==
    LET d == LatLonSub(p, Mesh3_to_degree(self))
        diff_secs == LatLon(RMul(RAbs(d.lat), R(SECS)), RMul(RAbs(d.lon), R(SECS)))
    IN  LatLon(RDiv(diff_secs.lat, R(LAT_SEC)), RDiv(diff_secs.lon, R(LON_SEC)))

\* `x += 1` on an i16.  At i16::MAX the build decides: with overflow checks
\* (debug) the addition panics, without them (release) it wraps.
AddOne(x, overflow_checks) ==
    IF x < I16Max THEN [val |-> x + 1, flag |-> "ok"]
    ELSE IF overflow_checks THEN [val |-> x, flag |-> "panic"]
    ELSE [val |-> I16Min, flag |-> "wrapped"]

\* Mesh3::north
north(self, overflow_checks) ==
    LET a == AddOne(self.lat, overflow_checks)
    IN  [mesh |-> Mesh3(a.val, self.lon), flag |-> a.flag]

\* Mesh3::east
east(self, overflow_checks) ==
    LET a == AddOne(self.lon, overflow_checks)
    IN  [mesh |-> Mesh3(self.lat, a.val), flag |-> a.flag]

\* MicroSecond::to_degree
MicroSecond_to_degree(self) ==
    LatLon(DivMicroSecs(R(self.lat)), DivMicroSecs(R(self.lon)))

(***************************************************************************)
(* grid.rs : Grid.  Indices are usize values counted from 0; an            *)
(* Option<usize> is the set of the values it may hold, {} for None.        *)
(***************************************************************************)
At(self, i) == self[i + 1]

\* the probing of slice::binary_search_by_key on self[left..right): -1 if no
\* probe hits the key
RECURSIVE Bisect(_, _, _, _)
Bisect(self, query, left, right) ==
    IF left >= right THEN -1
    ELSE LET mid == left + (right - left) \div 2
         IN  IF MeshLess(At(self, mid).mesh, query) THEN Bisect(self, query, mid + 1, right)
             ELSE IF MeshLess(query, At(self, mid).mesh) THEN Bisect(self, query, left, mid)
             ELSE mid

\* slice::binary_search_by_key(..).ok(): the index of a match.  "If there
\* are multiple matches, then any one of the matches could be returned."
binary_search_by_key(slice, query) ==
    IF Bisect(slice, query, 0, Len(slice)) = -1 THEN {}
    ELSE {i \in 0..(Len(slice) - 1) : At(slice, i).mesh = query}

\* search_after that forgets to add `first` back
search_after_relative(self, first, query) ==
    IF first > Len(self) THEN {}
    ELSE binary_search_by_key(SubSeq(self, first + 1, Len(self)), query)

\* Grid::search_after
search_after(self, first, query) ==
    IF first > Len(self) THEN {}
    ELSE {i + first : i \in binary_search_by_key(SubSeq(self, first + 1, Len(self)), query)}

\* search_at that takes the entry at the index for the queried cell
search_at_unchecked(self, index, query) ==
    IF index >= Len(self) THEN {} ELSE {index}

\* Grid::search_at
search_at(self, index, query) ==
    IF index >= Len(self) THEN {}
    ELSE IF At(self, index).mesh = query THEN {index} ELSE {}

Zero == LatLon(R(0), R(0))

\* what a call of Grid::bilinear does
RetNone(overflow) == [kind |-> "None", shift |-> Zero, overflow |-> overflow]

RetSome(shift, overflow) == [kind |-> "Some", shift |-> shift, overflow |-> overflow]

RetPanic(overflow) == [kind |-> "panic", shift |-> Zero, overflow |-> overflow]

\* the weighted mean with the south-east and north-west corners exchanged
weighted_mean_corners_swapped(sw_shift, se_shift, nw_shift, ne_shift, mesh, ne_mesh, p) ==
    LET n_e == diagonal_weight(mesh, p)
        s_w == diagonal_weight(ne_mesh, p)
        term(shift, a, b) == LatLonMul(LatLonMul(MicroSecond_to_degree(shift), a), b)
    IN  LatLonAdd(LatLonAdd(LatLonAdd(term(sw_shift, s_w.lat, s_w.lon),
                                      term(nw_shift, s_w.lat, n_e.lon)),
                            term(se_shift, n_e.lat, s_w.lon)),
                  term(ne_shift, n_e.lat, n_e.lon))

\* Grid::bilinear, the weights and the weighted mean
weighted_mean(sw_shift, se_shift, nw_shift, ne_shift, mesh, ne_mesh, p) ==
    LET n_e == diagonal_weight(mesh, p)
        s_w == diagonal_weight(ne_mesh, p)
        term(shift, a, b) == LatLonMul(LatLonMul(MicroSecond_to_degree(shift), a), b)
    IN  LatLonAdd(LatLonAdd(LatLonAdd(term(sw_shift, s_w.lat, s_w.lon),
                                      term(se_shift, s_w.lat, n_e.lon)),
                            term(nw_shift, n_e.lat, s_w.lon)),
                  term(ne_shift, n_e.lat, n_e.lon))

Overflowed(fs) == \E f \in fs : f = "wrapped"

\* Grid::bilinear from the north-east lookup on; i is the index of the
\* north-west corner
bilinear_ne(self, p, mesh, sw_shift, se_shift, i, flags, oc) ==
    IF i >= Len(self) THEN {RetPanic(Overflowed(flags))}
    ELSE LET nw_shift == At(self, i).shift
             n == north(mesh, oc)
             ne == east(n.mesh, oc)
             fs == flags \cup {n.flag, ne.flag}
         IN  IF n.flag = "panic" \/ ne.flag = "panic" THEN {RetPanic(TRUE)}
             ELSE LET found == search_at(self, i + 1, ne.mesh)
                  IN  IF found = {} THEN {RetNone(Overflowed(fs))}
                      ELSE UNION {
                          IF j >= Len(self) THEN {RetPanic(Overflowed(fs))}
                          ELSE {RetSome(weighted_mean(sw_shift, se_shift, nw_shift,
                                        At(self, j).shift, mesh, ne.mesh, p),
                                        Overflowed(fs))}
                          : j \in found}

\* Grid::bilinear from the north-west lookup on; i is the index of the
\* south-east corner
bilinear_nw(self, p, mesh, sw_shift, i, flags, oc) ==
    IF i >= Len(self) THEN {RetPanic(Overflowed(flags))}
    ELSE LET se_shift == At(self, i).shift
             n == north(mesh, oc)
             fs == flags \cup {n.flag}
         IN  IF n.flag = "panic" THEN {RetPanic(TRUE)}
             ELSE LET found == search_after(self, i + 1, n.mesh)
                  IN  IF found = {} THEN {RetNone(Overflowed(fs))}
                      ELSE UNION {bilinear_ne(self, p, mesh, sw_shift, se_shift, j, fs, oc)
                                  : j \in found}

\* Grid::bilinear from the south-east lookup on; i is the index of the
\* south-west corner
bilinear_se(self, p, mesh, i, oc) ==
    IF i >= Len(self) THEN {RetPanic(FALSE)}
    ELSE LET sw_shift == At(self, i).shift
             e == east(mesh, oc)
         IN  IF e.flag = "panic" THEN {RetPanic(TRUE)}
             ELSE LET found == search_at(self, i + 1, e.mesh)
                  IN  IF found = {} THEN {RetNone(Overflowed({e.flag}))}
                      ELSE UNION {bilinear_nw(self, p, mesh, sw_shift, j, {e.flag}, oc)
                                  : j \in found}

\* bilinear that computes the north-east cell before any lookup
bilinear_eager_corner(self, p, oc) ==
    LET mesh == floor(p)
        n == north(mesh, oc)
        ne == east(n.mesh, oc)
        found == search_after(self, 0, mesh)
        early == Overflowed({n.flag, ne.flag})
    IN  IF n.flag = "panic" \/ ne.flag = "panic" THEN {RetPanic(TRUE)}
        ELSE IF found = {} THEN {RetNone(early)}
        ELSE {[r EXCEPT !.overflow = @ \/ early] :
                r \in UNION {bilinear_se(self, p, mesh, i, oc) : i \in found}}

\* Grid::bilinear: the set of the outcomes of self.bilinear(p) in a build
\* with (oc) or without overflow checks
bilinear(self, p, oc) ==
    LET mesh == floor(p)
        found == search_after(self, 0, mesh)
    IN  IF found = {} THEN {RetNone(FALSE)}
        ELSE UNION {bilinear_se(self, p, mesh, i, oc) : i \in found}

(***************************************************************************)
(* geodetic.rs : LatLon::validate_degrees and DegreesError                 *)
(***************************************************************************)
\* is_in_degrees_range that leaves the poles and the antimeridian out
is_in_degrees_range_exclusive(lat, lon) ==
    /\ RLeq(RAbs(lat), R(90)) /\ RAbs(lat) # R(90)
    /\ RLeq(RAbs(lon), R(180)) /\ RAbs(lon) # R(180)

is_in_degrees_range(lat, lon) == RLeq(RAbs(lat), R(90)) /\ RLeq(RAbs(lon), R(180))

DegreesError(possibly_reversed) == [ok |-> FALSE, possibly_reversed |-> possibly_reversed]

validate_degrees(self) ==
    IF is_in_degrees_range(self.lat, self.lon) THEN [ok |-> TRUE]
    ELSE DegreesError(is_in_degrees_range(self.lon, self.lat))

\* <DegreesError as fmt::Display>::fmt : the pieces written, in order
Display(self) ==
    <<"degrees out of range">>
        \o (IF self.possibly_reversed THEN <<"; may be lat and lon reversed?">> ELSE <<>>)

(***************************************************************************)
(* ecef.rs : Ellipsoid.  The conversions are closed formulas of sines,     *)
(* cosines and arc tangents of f64, which rationals cannot hold: a         *)
(* converted value is kept as the term that names the formula and its      *)
(* arguments, so two values are equal when they come from the same         *)
(* formula on the same arguments.                                          *)
(***************************************************************************)
\* the two ellipsoids: their radii enter only the formulas kept as terms
BESSEL == "BESSEL"

GRS80 == "GRS80"

\* Ellipsoid::to_ecef
to_ecef(self, degree) == [fn |-> "to_ecef", ellipsoid |-> self, arg |-> degree]

\* Add for ECEF
ECEFAdd(self, rhs) == [fn |-> "add", lhs |-> self, rhs |-> rhs]

\* Ellipsoid::to_geodetic
to_geodetic(self, ecef) == [fn |-> "to_geodetic", ellipsoid |-> self, arg |-> ecef]

(***************************************************************************)
(* crs.rs : Tokyo, Tokyo97, Jgd2000, Jgd2011                               *)
(***************************************************************************)
\* a datum object: Self { degrees }
Datum(crs, d) == [ok |-> TRUE, crs |-> crs, degrees |-> d]

\* a panic of Grid::bilinear unwinds through the conversion
Unwound == [ok |-> FALSE, crs |-> "panic"]

\* Tokyo::new
Tokyo_new(d) ==
    LET v == validate_degrees(d) IN IF v.ok THEN Datum("Tokyo", d) ELSE v

\* Tokyo97::TO_ITRF94, in millimetres over 1000
TO_ITRF94 == [x |-> <<-146414, 1000>>, y |-> <<507337, 1000>>, z |-> <<680507, 1000>>]

\* Tokyo97::new
Tokyo97_new(d) ==
    LET v == validate_degrees(d) IN IF v.ok THEN Datum("Tokyo97", d) ELSE v

\* Tokyo97::new_unchecked
Tokyo97_new_unchecked(d) == Datum("Tokyo97", d)

\* Jgd2000::new
Jgd2000_new(d) == Datum("Jgd2000", d)

\* Jgd2011::new
Jgd2011_new(d) == Datum("Jgd2011", d)

\* Tokyo97::to_jgd2000
Tokyo97_to_jgd2000(self) ==
    LET itrf94 == ECEFAdd(to_ecef(BESSEL, self.degrees), TO_ITRF94)
    IN  Jgd2000_new(to_geodetic(GRS80, itrf94))

\* to_jgd2000 that leaves the coordinate as it is where the grid has no
\* parameter
Tokyo_to_jgd2000_unchanged_on_miss(self, found) ==
    CASE found.kind = "Some" -> Jgd2000_new(LatLonAdd(self.degrees, found.shift))
      [] found.kind = "None" -> Jgd2000_new(self.degrees)
      [] OTHER -> Unwound

\* Tokyo::to_jgd2000, from the return of TKY2JGD.bilinear(self.degrees) on
Tokyo_to_jgd2000(self, found) ==
    CASE found.kind = "Some" -> Jgd2000_new(LatLonAdd(self.degrees, found.shift))
      [] found.kind = "None" -> Tokyo97_to_jgd2000(Tokyo97_new_unchecked(self.degrees))
      [] OTHER -> Unwound

\* Option::unwrap_or_default
unwrap_or_default(found) == IF found.kind = "Some" THEN found.shift ELSE Zero

\* to_jgd2011 that takes the shift off instead of adding it
Jgd2000_to_jgd2011_subtracting(self, found) ==
    IF found.kind = "panic" THEN Unwound
    ELSE Jgd2011_new(LatLonSub(self.degrees, unwrap_or_default(found)))

\* Jgd2000::to_jgd2011, from the return of
\* TOUHOKUTAIHEIYOUOKI2011.bilinear(self.degrees) on
Jgd2000_to_jgd2011(self, found) ==
    IF found.kind = "panic" THEN Unwound
    ELSE Jgd2011_new(LatLonAdd(self.degrees, unwrap_or_default(found)))

(***************************************************************************)
(* The inputs of the model: raw lines as split(b'\n') yields them          *)
(***************************************************************************)
Front(s) == SubSeq(s, 1, Len(s) - 1)

\* b"MeshCode   dB(sec)   dL(sec)"
Header ==
    <<"M", "e", "s", "h", "C", "o", "d", "e", " ", " ", " ",
      "d", "B", "(", "s", "e", "c", ")", " ", " ", " ",
      "d", "L", "(", "s", "e", "c", ")">>

\* a line of the preamble that precedes the header in the .par files
Version == <<"J", "G", "D">>

MeshA == <<"4", "6", "3", "0", "3", "5", "8", "2">>

MeshB == <<"4", "6", "3", "0", "3", "5", "8", "1">>

MeshC == <<" ", "1", " ", "0", "0", "0", "0", "0">>

MeshD == <<" ", "1", " ", "0", "0", "0", "0", "1">>

MeshJunk == <<"4", "x", "3", "0", "3", "5", "8", "2">>

DPos == <<" ", " ", "1", "2", ".", "7", "9", "7", "9", "9">>

DPlus == <<" ", "+", "1", "2", ".", "7", "9", "7", "9", "9">>

DNeg == <<" ", " ", "-", "8", ".", "1", "3", "3", "5", "4">>

DNeg2 == <<" ", " ", "-", "8", ".", "1", "3", "3", "5", "5">>

DZero == <<" ", " ", " ", "0", ".", "1", "2", "3", "4", "5">>

DMinusZero == <<" ", " ", "-", "0", ".", "1", "2", "3", "4", "5">>

DNoPoint == <<" ", " ", "1", "2", " ", "7", "9", "7", "9", "9">>

DLeft == <<" ", "-", "8", " ", ".", "1", "3", "3", "5", "4">>

TxtA == MeshA \o DPos \o DNeg

TxtA2 == MeshA \o DPos \o DNeg2

TxtB == MeshB \o DMinusZero \o DZero

TxtC == MeshC \o DZero \o DNeg

TxtPlus == MeshA \o DPlus \o DNeg

TxtTrail == MeshD \o DPos \o DZero \o <<" ", "x">>

TxtShort == Front(TxtA)

TxtNoPoint == MeshA \o DNoPoint \o DNeg

TxtLeft == MeshA \o DPos \o DLeft

TxtJunk == MeshJunk \o DPos \o DNeg

Crlf(text) == text \o <<CR>>

\* Every raw line an input of the model can hold.  stdin is kept as a
\* sequence of positions in this table; Raw gives the bytes of a line.
LineTable ==
    <<Crlf(Header), Crlf(Version),
      \* lines that parse
      Crlf(TxtA), Crlf(TxtA2), Crlf(TxtB), Crlf(TxtC), Crlf(TxtPlus), Crlf(TxtTrail),
      \* lines that do not: malformed records, an empty line, a line ended by LF alone
      Crlf(TxtShort), Crlf(TxtNoPoint), Crlf(TxtLeft), Crlf(TxtJunk), Crlf(<<>>), TxtA>>

Raw(id) == LineTable[id]

BodyLines == 3..Len(LineTable)

Bodies == UNION {[1..n -> BodyLines] : n \in 0..MaxLines}

Preambles == {<<>>, <<1>>, <<2, 1>>}

\* ret before any call of Grid::bilinear
NoCall == [kind |-> "none yet", shift |-> Zero, overflow |-> FALSE]

\* datum and converted before any constructor or conversion is called
NoDatum == [ok |-> FALSE, crs |-> "none yet"]

NotConstructed == [ctor |-> "none yet", arg |-> Zero, res |-> NoDatum]

(***************************************************************************)
(* main: the iterator chain, one raw line per step                         *)
(***************************************************************************)
Init ==
    /\ stdin \in {pre \o body : pre \in Preambles, body \in Bodies}
    /\ pos = 0
    /\ stage = "skip_while"
    /\ records = {}
    /\ stdout = <<>>
    /\ pc = "collect"
    /\ dots = <<>>
    /\ degrees = Zero
    /\ ret = NoCall
    /\ datum = NotConstructed
    /\ converted = NoDatum
    /\ readers = <<>>

\* line.pop() == Some(b'\r')
IsCrlf(raw) == raw # <<>> /\ raw[Len(raw)] = CR

\* assert_eq!(line.pop(), Some(b'\r')) fails, or Record::from_str panics
ReadPanic ==
    /\ pc = "collect"
    /\ pos < Len(stdin)
    /\ LET raw == Raw(stdin[pos + 1])
       IN  \/ ~IsCrlf(raw)
           \/ /\ IsCrlf(raw)
              /\ stage = "body"
              /\ ~from_str(Front(raw)).ok
    /\ pos' = pos + 1
    /\ pc' = "panic"
    /\ UNCHANGED <<stdin, stage, records, stdout>>
    /\ UNCHANGED <<gridVars, wrapperVars, readerVars>>

\* skip_while(|line| line != header) drops the line; the header line itself
\* ends the skipping and is dropped by skip(1)
SkipLine ==
    /\ pc = "collect"
    /\ pos < Len(stdin)
    /\ stage = "skip_while"
    /\ IsCrlf(Raw(stdin[pos + 1]))
    /\ pos' = pos + 1
    /\ stage' = IF Front(Raw(stdin[pos + 1])) # Header THEN "skip_while" ELSE "body"
    /\ UNCHANGED <<stdin, records, stdout, pc>>
    /\ UNCHANGED <<gridVars, wrapperVars, readerVars>>

\* a body line is parsed and collected into the BTreeSet
ReadRecord ==
    /\ pc = "collect"
    /\ pos < Len(stdin)
    /\ stage = "body"
    /\ IsCrlf(Raw(stdin[pos + 1]))
    /\ LET r == from_str(Front(Raw(stdin[pos + 1])))
       IN  /\ r.ok
           /\ records' = BTreeSetInsert(records, r.val)
    /\ pos' = pos + 1
    /\ UNCHANGED <<stdin, stage, stdout, pc>>
    /\ UNCHANGED <<gridVars, wrapperVars, readerVars>>

\* a compiler that starts to write while lines are still unread
EndOfInput_streaming ==
    /\ pc = "collect"
    /\ stage = "body"
    /\ records # {}
    /\ pc' = "write"
    /\ UNCHANGED <<stdin, pos, stage, records, stdout>>
    /\ UNCHANGED <<gridVars, wrapperVars, readerVars>>

\* stdin is exhausted: collect() returns and into_iter() starts
EndOfInput ==
    /\ pc = "collect"
    /\ pos = Len(stdin)
    /\ pc' = "write"
    /\ UNCHANGED <<stdin, pos, stage, records, stdout>>
    /\ UNCHANGED <<gridVars, wrapperVars, readerVars>>

\* for_each: write_all(&record.to_bytes()) for the next record in order
WriteRecord ==
    /\ pc = "write"
    /\ records # {}
    /\ LET record == IterNext(records)
       IN  /\ stdout' = stdout \o to_bytes(record)
           /\ records' = records \ {record}
    /\ UNCHANGED <<stdin, pos, stage, pc>>
    /\ UNCHANGED <<gridVars, wrapperVars, readerVars>>

\* the iterator is drained: main returns
Exit ==
    /\ pc = "write"
    /\ records = {}
    /\ pc' = "done"
    /\ UNCHANGED <<stdin, pos, stage, records, stdout>>
    /\ UNCHANGED <<gridVars, wrapperVars, readerVars>>

Next ==
    \/ ReadPanic
    \/ SkipLine
    \/ ReadRecord
    \/ EndOfInput
    \/ WriteRecord
    \/ Exit

Spec == Init /\ [][Next]_vars

(***************************************************************************)
(* The grid: tables the compiler can emit, loaded as Grid.dots, and the    *)
(* queries made of them                                                    *)
(***************************************************************************)
\* the shifts of the model are whole multiples of 3600 micro-arcseconds
\* (1e-9 degree), which keeps every rational within TLC's 32-bit integers
ShiftUnit == 60 * 60

\* the record of a cell (the corner values of the tests of grid.rs, scaled)
RecordOf(lat, lon) ==
    <<lat, lon, ShiftUnit * (6 * lat + 6 * lon - 6), ShiftUnit * 6 * lon>>

\* a mesh index Record::from_str can produce: the 1st mesh field has two
\* characters, the 2nd and 3rd one digit each
Emittable(v) ==
    \E mesh1 \in -9..99, mesh2 \in 0..9, mesh3 \in 0..9 :
        to_grid(mesh1, mesh2, mesh3) = [ok |-> TRUE, val |-> v]

\* the largest mesh index Record::from_str can produce
TopIdx == to_grid(99, 9, 9).val

\* one record per cell of the rectangle, a second record with another shift
\* for cell (0, 0), and a record for the largest cell there can be
RecordUniverse ==
    {r \in {RecordOf(lat, lon) : lat \in MinLatIdx..MaxLatIdx, lon \in 0..MaxLonIdx}
              \cup {<<0, 0, ShiftUnit, ShiftUnit>>, <<TopIdx, TopIdx, ShiftUnit, 0 - ShiftUnit>>} :
        Emittable(r[1]) /\ Emittable(r[2])}

\* the sets of at most k records
RECURSIVE UpTo(_)
UpTo(k) ==
    IF k = 0 THEN {{}}
    ELSE UpTo(k - 1) \cup {m \cup {r} : m \in UpTo(k - 1), r \in RecordUniverse}

\* what the inputs of the model compile to: the universe less at most
\* MaxMissing records, and nothing at all
RecordSets == {RecordUniverse \ m : m \in UpTo(MaxMissing)} \cup {{}}

\* the order in which main writes a set of records
RECURSIVE Drain(_)
Drain(set) ==
    IF set = {} THEN <<>>
    ELSE <<IterNext(set)>> \o Drain(set \ {IterNext(set)})

\* a 12-byte record read as a Dot
DotOf(r) == [mesh |-> Mesh3(r[1], r[2]), shift |-> [lat |-> r[3], lon |-> r[4]]]

Tables == {[i \in 1..Len(Drain(S)) |-> DotOf(Drain(S)[i])] : S \in RecordSets}

\* LatLon(lat, lon) / SECS
SecsToDegrees(lat, lon) == LatLonDiv(LatLon(lat, lon), R(SECS))

\* in arc seconds: cell corners, interior points, the last second inside a
\* cell, negative coordinates, the corner of the largest cell, and +-300
\* degrees, past the i16 range
QueryLatSecs ==
    {R(0), R(15), R(29), R(30), R(-30), R(-10), R(TopIdx * LAT_SEC),
     R(1080000), R(-1080000)}

\* and 500 degrees
QueryLonSecs ==
    {R(0), <<45, 2>>, R(44), R(45), R(-10), R(TopIdx * LON_SEC), R(1800000)}

Queries == {SecsToDegrees(lat, lon) : lat \in QueryLatSecs, lon \in QueryLonSecs}

GridInit ==
    /\ dots \in Tables
    /\ degrees = Zero
    /\ ret = NoCall
    /\ stdin = <<>>
    /\ pos = 0
    /\ stage = "skip_while"
    /\ records = {}
    /\ stdout = <<>>
    /\ pc = "idle"
    /\ datum = NotConstructed
    /\ converted = NoDatum
    /\ readers = <<>>

\* the call self.bilinear(p) made of the loaded table, in a build with or
\* without overflow checks
Bilinear ==
    /\ ret = NoCall
    /\ \E p \in Queries, overflow_checks \in BOOLEAN :
          /\ degrees' = p
          /\ ret' \in bilinear(dots, p, overflow_checks)
    /\ UNCHANGED dots
    /\ UNCHANGED <<compilerVars, wrapperVars, readerVars>>

GridNext == Bilinear

GridSpec == GridInit /\ [][GridNext]_vars

(***************************************************************************)
(* The datum objects: one constructor call, then one conversion.  dots is  *)
(* the table of the grid the conversion consults (TKY2JGD for              *)
(* Tokyo::to_jgd2000, TOUHOKUTAIHEIYOUOKI2011 for Jgd2000::to_jgd2011).    *)
(***************************************************************************)
\* the tables that lack at most one record, and the empty one
WrapperTables ==
    {t \in Tables : Len(t) + 1 >= Cardinality(RecordUniverse)} \cup {<<>>}

\* in degrees: 0, 15", -10", -30", 35, the poles, and 91, 135, 181 past them
CoordLats ==
    {R(0), <<1, 240>>, <<-1, 360>>, <<-1, 120>>, R(35), R(90), R(-90), R(91),
     R(135), R(181)}

\* in degrees: 0, 22.5", 45", 90", 35, 135, the antimeridian, and 181, 500
\* past it
CoordLons ==
    {R(0), <<1, 160>>, <<1, 80>>, <<1, 40>>, R(35), R(135), R(180), R(-180),
     R(181), R(500)}

Coordinates == {LatLon(lat, lon) : lat \in CoordLats, lon \in CoordLons}

CrsInit ==
    /\ dots \in WrapperTables
    /\ degrees = Zero
    /\ ret = NoCall
    /\ datum = NotConstructed
    /\ converted = NoDatum
    /\ readers = <<>>
    /\ stdin = <<>>
    /\ pos = 0
    /\ stage = "skip_while"
    /\ records = {}
    /\ stdout = <<>>
    /\ pc = "idle"

\* Tokyo::new(d)
TokyoNew ==
    /\ datum = NotConstructed
    /\ \E d \in Coordinates :
          datum' = [ctor |-> "Tokyo", arg |-> d, res |-> Tokyo_new(d)]
    /\ UNCHANGED <<converted, gridVars, compilerVars, readerVars>>

\* Tokyo97::new(d)
Tokyo97New ==
    /\ datum = NotConstructed
    /\ \E d \in Coordinates :
          datum' = [ctor |-> "Tokyo97", arg |-> d, res |-> Tokyo97_new(d)]
    /\ UNCHANGED <<converted, gridVars, compilerVars, readerVars>>

\* Jgd2000::new(d)
Jgd2000New ==
    /\ datum = NotConstructed
    /\ \E d \in Coordinates :
          datum' = [ctor |-> "Jgd2000", arg |-> d, res |-> Jgd2000_new(d)]
    /\ UNCHANGED <<converted, gridVars, compilerVars, readerVars>>

\* tokyo.to_jgd2000(), in a build with or without overflow checks
TokyoToJgd2000 ==
    /\ datum.res.ok
    /\ datum.res.crs = "Tokyo"
    /\ converted = NoDatum
    /\ \E overflow_checks \in BOOLEAN :
          \E found \in bilinear(dots, datum.res.degrees, overflow_checks) :
              /\ degrees' = datum.res.degrees
              /\ ret' = found
              /\ converted' = Tokyo_to_jgd2000(datum.res, found)
    /\ UNCHANGED <<dots, datum, compilerVars, readerVars>>

\* tokyo97.to_jgd2000()
Tokyo97ToJgd2000 ==
    /\ datum.res.ok
    /\ datum.res.crs = "Tokyo97"
    /\ converted = NoDatum
    /\ converted' = Tokyo97_to_jgd2000(datum.res)
    /\ UNCHANGED <<datum, gridVars, compilerVars, readerVars>>

\* jgd2000.to_jgd2011(), in a build with or without overflow checks
Jgd2000ToJgd2011 ==
    /\ datum.res.ok
    /\ datum.res.crs = "Jgd2000"
    /\ converted = NoDatum
    /\ \E overflow_checks \in BOOLEAN :
          \E found \in bilinear(dots, datum.res.degrees, overflow_checks) :
              /\ degrees' = datum.res.degrees
              /\ ret' = found
              /\ converted' = Jgd2000_to_jgd2011(datum.res, found)
    /\ UNCHANGED <<dots, datum, compilerVars, readerVars>>

CrsNext ==
    \/ TokyoNew
    \/ Tokyo97New
    \/ Jgd2000New
    \/ TokyoToJgd2000
    \/ Tokyo97ToJgd2000
    \/ Jgd2000ToJgd2011

CrsSpec == CrsInit /\ [][CrsNext]_vars

(***************************************************************************)
(* Concurrent readers: each runs Grid::bilinear on the shared table, one   *)
(* lookup per step, in any interleaving.  A frame holds the locals of a    *)
(* call.                                                                   *)
(***************************************************************************)
Readers == 1..MaxReaders

NoShift == [lat |-> 0, lon |-> 0]

\* the frame of a reader that has not called yet
NotCalled ==
    [pc |-> "not called", degrees |-> Zero, overflow_checks |-> FALSE,
     mesh |-> Mesh3(0, 0), i |-> 0, sw_shift |-> NoShift, se_shift |-> NoShift,
     nw_shift |-> NoShift, ne_shift |-> NoShift, flags |-> {}, out |-> NoCall]

\* the frame on entry of self.bilinear(p)
Frame(p, overflow_checks) ==
    [NotCalled EXCEPT !.pc = "sw", !.degrees = p, !.overflow_checks = overflow_checks]

\* the call ends: by return, by `?`, or by a panic
Return(f, out) == [f EXCEPT !.pc = "returned", !.out = out]

\* let mesh = Mesh3::floor(degrees); let i = self.search_after(0, mesh)?;
\* let sw_shift = self.dots[i].shift;
lookup_sw(f, self) ==
    LET mesh == floor(f.degrees)
        found == search_after(self, 0, mesh)
    IN  IF found = {} THEN {Return(f, RetNone(FALSE))}
        ELSE {IF i >= Len(self) THEN Return(f, RetPanic(FALSE))
              ELSE [f EXCEPT !.pc = "se", !.mesh = mesh, !.i = i,
                             !.sw_shift = At(self, i).shift] : i \in found}

\* let i = self.search_at(i + 1, mesh.east())?; let se_shift = ...
lookup_se(f, self) ==
    LET e == east(f.mesh, f.overflow_checks)
        fs == {e.flag}
        found == search_at(self, f.i + 1, e.mesh)
    IN  IF e.flag = "panic" THEN {Return(f, RetPanic(TRUE))}
        ELSE IF found = {} THEN {Return(f, RetNone(Overflowed(fs)))}
        ELSE {IF i >= Len(self) THEN Return(f, RetPanic(Overflowed(fs)))
              ELSE [f EXCEPT !.pc = "nw", !.i = i, !.flags = fs,
                             !.se_shift = At(self, i).shift] : i \in found}

\* let i = self.search_after(i + 1, mesh.north())?; let nw_shift = ...
lookup_nw(f, self) ==
    LET n == north(f.mesh, f.overflow_checks)
        fs == f.flags \cup {n.flag}
        found == search_after(self, f.i + 1, n.mesh)
    IN  IF n.flag = "panic" THEN {Return(f, RetPanic(TRUE))}
        ELSE IF found = {} THEN {Return(f, RetNone(Overflowed(fs)))}
        ELSE {IF i >= Len(self) THEN Return(f, RetPanic(Overflowed(fs)))
              ELSE [f EXCEPT !.pc = "ne", !.i = i, !.flags = fs,
                             !.nw_shift = At(self, i).shift] : i \in found}

\* let i = self.search_at(i + 1, mesh.north().east())?; let ne_shift = ...
lookup_ne(f, self) ==
    LET n == north(f.mesh, f.overflow_checks)
        ne == east(n.mesh, f.overflow_checks)
        fs == f.flags \cup {n.flag, ne.flag}
        found == search_at(self, f.i + 1, ne.mesh)
    IN  IF n.flag = "panic" \/ ne.flag = "panic" THEN {Return(f, RetPanic(TRUE))}
        ELSE IF found = {} THEN {Return(f, RetNone(Overflowed(fs)))}
        ELSE {IF i >= Len(self) THEN Return(f, RetPanic(Overflowed(fs)))
              ELSE [f EXCEPT !.pc = "mean", !.i = i, !.flags = fs,
                             !.ne_shift = At(self, i).shift] : i \in found}

\* the weights, the weighted mean and Some(shift)
mean(f) ==
    LET ne == east(north(f.mesh, f.overflow_checks).mesh, f.overflow_checks)
    IN  Return(f, RetSome(weighted_mean(f.sw_shift, f.se_shift, f.nw_shift, f.ne_shift,
                                        f.mesh, ne.mesh, f.degrees),
                          Overflowed(f.flags)))

\* in arc seconds: the centre of cell (0, 0), and the corner of cell (1, 0),
\* whose northern neighbours are not stored
ReaderQueries == {SecsToDegrees(R(15), <<45, 2>>), SecsToDegrees(R(30), R(0))}

ConcurrentInit ==
    /\ dots \in WrapperTables
    /\ readers = [r \in Readers |-> NotCalled]
    /\ degrees = Zero
    /\ ret = NoCall
    /\ datum = NotConstructed
    /\ converted = NoDatum
    /\ stdin = <<>>
    /\ pos = 0
    /\ stage = "skip_while"
    /\ records = {}
    /\ stdout = <<>>
    /\ pc = "idle"

\* reader r calls self.bilinear(p); all readers run the one build
Call(r) ==
    /\ readers[r].pc = "not called"
    /\ \E p \in ReaderQueries, overflow_checks \in BOOLEAN :
          /\ \A o \in Readers :
                readers[o].pc # "not called" =>
                    readers[o].overflow_checks = overflow_checks
          /\ readers' = [readers EXCEPT ![r] = Frame(p, overflow_checks)]
    /\ UNCHANGED <<gridVars, wrapperVars, compilerVars>>

\* a reader that moves the entry it found to the front of the table
LookupSW_move_to_front(r) ==
    /\ readers[r].pc = "sw"
    /\ \E f \in lookup_sw(readers[r], dots) :
          /\ readers' = [readers EXCEPT ![r] = f]
          /\ dots' = IF f.pc = "returned" THEN dots
                     ELSE <<At(dots, f.i)>> \o SubSeq(dots, 1, f.i)
                              \o SubSeq(dots, f.i + 2, Len(dots))
    /\ UNCHANGED <<degrees, ret, wrapperVars, compilerVars>>

LookupSW(r) ==
    /\ readers[r].pc = "sw"
    /\ \E f \in lookup_sw(readers[r], dots) : readers' = [readers EXCEPT ![r] = f]
    /\ UNCHANGED <<gridVars, wrapperVars, compilerVars>>

LookupSE(r) ==
    /\ readers[r].pc = "se"
    /\ \E f \in lookup_se(readers[r], dots) : readers' = [readers EXCEPT ![r] = f]
    /\ UNCHANGED <<gridVars, wrapperVars, compilerVars>>

LookupNW(r) ==
    /\ readers[r].pc = "nw"
    /\ \E f \in lookup_nw(readers[r], dots) : readers' = [readers EXCEPT ![r] = f]
    /\ UNCHANGED <<gridVars, wrapperVars, compilerVars>>

LookupNE(r) ==
    /\ readers[r].pc = "ne"
    /\ \E f \in lookup_ne(readers[r], dots) : readers' = [readers EXCEPT ![r] = f]
    /\ UNCHANGED <<gridVars, wrapperVars, compilerVars>>

WeightedMean(r) ==
    /\ readers[r].pc = "mean"
    /\ readers' = [readers EXCEPT ![r] = mean(readers[r])]
    /\ UNCHANGED <<gridVars, wrapperVars, compilerVars>>

ConcurrentNext ==
    \E r \in Readers :
        \/ Call(r)
        \/ LookupSW(r)
        \/ LookupSE(r)
        \/ LookupNW(r)
        \/ LookupNE(r)
        \/ WeightedMean(r)

ConcurrentSpec == ConcurrentInit /\ [][ConcurrentNext]_vars

(***************************************************************************)
(* Vocabulary of the properties of the compiler                            *)
(***************************************************************************)
Text(k) == Front(Raw(stdin[k]))

\* positions of the lines after the header line
BodyIdx ==
    {k \in 1..Len(stdin) : \E h \in 1..(k - 1) : Raw(stdin[h]) = Crlf(Header)}

\* the body lines the compiler has pulled so far
Consumed == {k \in BodyIdx : k <= pos}

Parses(k) == IsCrlf(Raw(stdin[k])) /\ from_str(Text(k)).ok

InputRecords == {from_str(Text(k)).val : k \in {j \in BodyIdx : Parses(j)}}

Cell(r) == <<r[1], r[2]>>

Shift(r) == <<r[3], r[4]>>

\* the elements of a set of tuples, in ascending lexicographic order
RECURSIVE Ascending(_)
Ascending(S) ==
    IF S = {} THEN <<>>
    ELSE LET m == CHOOSE r \in S : \A o \in S \ {r} : LexLess(r, o)
         IN  <<m>> \o Ascending(S \ {m})

RECURSIVE Blob(_)
Blob(rs) == IF rs = <<>> THEN <<>> ELSE to_bytes(rs[1]) \o Blob(Tail(rs))

\* reading a little-endian two's-complement integer back
RECURSIVE FromLe(_)
FromLe(b) ==
    IF Len(b) = 1 THEN (IF b[1] >= 128 THEN b[1] - 256 ELSE b[1])
    ELSE b[1] + 256 * FromLe(Tail(b))

RecordSize == 12

NumWritten == Len(stdout) \div RecordSize

Chunk(i) == SubSeq(stdout, RecordSize * (i - 1) + 1, RecordSize * i)

Decode(c) ==
    <<FromLe(SubSeq(c, 1, 2)), FromLe(SubSeq(c, 3, 4)),
      FromLe(SubSeq(c, 5, 8)), FromLe(SubSeq(c, 9, 12))>>

Written == {Decode(Chunk(i)) : i \in 1..NumWritten}

(***************************************************************************)
(* C1.  The emitted table is strictly ascending on the cell key: adjacent  *)
(* output records a, b satisfy a.cell < b.cell, so no cell appears twice.  *)
(* The code orders and deduplicates whole records (cell and shift), so two *)
(* lines with one cell and two shifts are both emitted (see C2).           *)
(***************************************************************************)
C1_StrictlyAscendingCells ==
    \A i \in 1..(NumWritten - 1) :
        LexLess(Cell(Decode(Chunk(i))), Cell(Decode(Chunk(i + 1))))

(***************************************************************************)
(* C2.  When two input lines have the same mesh cell and different shifts, *)
(* the compilation aborts and no table is produced.  The code has no such  *)
(* check: both records are collected and written.                          *)
(***************************************************************************)
Conflict ==
    \E j, k \in BodyIdx :
        /\ Parses(j) /\ Parses(k)
        /\ Cell(from_str(Text(j)).val) = Cell(from_str(Text(k)).val)
        /\ Shift(from_str(Text(j)).val) # Shift(from_str(Text(k)).val)

C2_ConflictAborts == Conflict => (stdout = <<>> /\ pc # "done")

(***************************************************************************)
(* C3.  The compiled blob depends only on the set of distinct (cell,       *)
(* shift) records of the input: when main returns, stdout is the encoding  *)
(* of that set in ascending order, one 12-byte record per distinct record, *)
(* whatever the order of the lines and however often a line is repeated.   *)
(***************************************************************************)
C3_BlobDependsOnlyOnRecordSet ==
    pc = "done" =>
        /\ stdout = Blob(Ascending(InputRecords))
        /\ Len(stdout) = RecordSize * Cardinality(InputRecords)

\* a finished run whose input repeats a line and lists a larger record first
C3_Witness ==
    /\ pc = "done"
    /\ Cardinality(InputRecords) >= 2
    /\ \E i, j \in BodyIdx : i < j /\ stdin[i] = stdin[j]
    /\ \E i, j \in BodyIdx :
          i < j /\ LexLess(from_str(Text(j)).val, from_str(Text(i)).val)

(***************************************************************************)
(* C8.  stdout is the bare concatenation of 12-byte records: lat index as  *)
(* little-endian i16 in bytes 0-1, lon index as i16 in bytes 2-3, lat      *)
(* shift as i32 in bytes 4-7, lon shift as i32 in bytes 8-11.  Its length  *)
(* is 12 times the number of records written, and decoding the chunks      *)
(* gives back the four integers of each record written.                    *)
(***************************************************************************)
C8_BlobLayout ==
    /\ Len(stdout) = RecordSize * NumWritten
    /\ \A i \in 1..Len(stdout) : stdout[i] \in 0..255
    /\ pc \in {"write", "done"} =>
          /\ NumWritten = Cardinality(InputRecords) - Cardinality(records)
          /\ Written = InputRecords \ records

\* two records are out, one of them with a negative shift
C8_Witness ==
    /\ NumWritten >= 2
    /\ \E r \in Written : r[3] < 0 \/ r[4] < 0

(***************************************************************************)
(* C9.  The fractional part of a correction field is negated whenever the  *)
(* integer part is written with a minus sign, -0 included: the field       *)
(* -0.FFFFF is stored as the negative number of magnitude FFFFF.  The code *)
(* takes the sign from the parsed integer, and -0 parses to 0.             *)
(***************************************************************************)
\* the value of the 10-character field at `from`, signed by its written sign
SignedField(text, from) ==
    LET int == SubSeq(text, from, from + 3)
        frac == SubSeq(text, from + 5, from + 9)
        magnitude == ParseI64(trim_start(int)).val * (IF ParseI64(trim_start(int)).val < 0 THEN -1 ELSE 1)
                        * 100000 + ParseI64(trim_start(frac)).val
    IN  IF \E i \in 1..4 : int[i] = "-" THEN 0 - magnitude ELSE magnitude

C9_MinusSignNegatesFraction ==
    pc = "collect" =>
        \A k \in Consumed :
            \E r \in records :
                /\ Cell(r) = Cell(from_str(Text(k)).val)
                /\ r[3] = SignedField(Text(k), 9)
                /\ r[4] = SignedField(Text(k), 19)

(***************************************************************************)
(* C10.  A body line that does not conform to the fixed-width layout (too  *)
(* short, a field that is not a right-justified integer, a missing decimal *)
(* point, an index or shift out of its 16- or 32-bit range) aborts the     *)
(* compilation at that line, and nothing is ever written for such input.   *)
(***************************************************************************)
AllDigits(s) == s # <<>> /\ \A i \in 1..Len(s) : IsDigit(s[i])

\* leading spaces, then an optionally signed run of digits
RightJustifiedInt(f) ==
    \E k \in 0..(Len(f) - 1) :
        /\ \A i \in 1..k : f[i] = " "
        /\ LET b == Tail2(f, k)
           IN  \/ AllDigits(b)
               \/ b[1] \in {"+", "-"} /\ AllDigits(Tail(b))

FieldValue(f) == ParseI64(trim_start(f)).val

\* six mesh fields and two corrections of 4 + 1 + 5 characters
LineLength == (2 + 2 + 1 + 1 + 1 + 1) + 2 * (4 + 1 + 5)

Conforms(text) ==
    /\ Len(text) >= LineLength
    /\ \A f \in {<<1, 2>>, <<3, 4>>, <<5, 5>>, <<6, 6>>, <<7, 7>>, <<8, 8>>,
                 <<9, 12>>, <<14, 18>>, <<19, 22>>, <<24, 28>>} :
          RightJustifiedInt(SubSeq(text, f[1], f[2]))
    /\ text[13] = "." /\ text[23] = "."
    /\ InI16(FieldValue(SubSeq(text, 1, 2)) * 80 + FieldValue(SubSeq(text, 5, 5)) * 10
              + FieldValue(SubSeq(text, 7, 7)))
    /\ InI16(FieldValue(SubSeq(text, 3, 4)) * 80 + FieldValue(SubSeq(text, 6, 6)) * 10
              + FieldValue(SubSeq(text, 8, 8)))
    /\ InI32(SignedField(text, 9)) /\ InI32(SignedField(text, 19))

C10_MalformedLineAborts ==
    /\ \A k \in Consumed : ~Conforms(Text(k)) => (pc = "panic" /\ pos = k)
    /\ pc = "panic" => stdout = <<>>
    /\ stdout # <<>> => \A k \in BodyIdx : Conforms(Text(k))

\* the compiler stopped at a body line without its decimal point, after it
\* had collected a record, and wrote nothing
C10_Witness ==
    /\ pc = "panic"
    /\ records # {}
    /\ pos \in BodyIdx
    /\ Text(pos) = TxtNoPoint
    /\ stdout = <<>>

(***************************************************************************)
(* Vocabulary of the properties of the grid                                *)
(***************************************************************************)
Called == ret # NoCall

\* strictly sorted by cell, hence free of duplicate cells
StrictlySorted == \A i \in 1..(Len(dots) - 1) : MeshLess(dots[i].mesh, dots[i + 1].mesh)

Cells == {dots[i].mesh : i \in 1..Len(dots)}

\* the four corners of the cell of the query
SW == floor(degrees)

SE == Mesh3(SW.lat, SW.lon + 1)

NW == Mesh3(SW.lat + 1, SW.lon)

NE == Mesh3(SW.lat + 1, SW.lon + 1)

Covered == {SW, SE, NW, NE} \subseteq Cells

\* the shift, in degrees, the table holds for a cell it holds once
ShiftAt(c) == MicroSecond_to_degree(dots[CHOOSE i \in 1..Len(dots) : dots[i].mesh = c].shift)

One == R(1)

InUnit(x) == RLeq(R(0), x) /\ RLeq(x, One)

T == RDiv(RMul(RSub(degrees.lat, Mesh3_to_degree(SW).lat), R(3600)), R(30))

U == RDiv(RMul(RSub(degrees.lon, Mesh3_to_degree(SW).lon), R(3600)), R(45))

Scaled(c, a, b) == LatLonMul(LatLonMul(ShiftAt(c), a), b)

Textbook ==
    LatLonAdd(LatLonAdd(LatLonAdd(Scaled(SW, RSub(One, T), RSub(One, U)),
                                  Scaled(SE, RSub(One, T), U)),
                        Scaled(NW, T, RSub(One, U))),
              Scaled(NE, T, U))

Average ==
    LatLonDiv(LatLonAdd(LatLonAdd(LatLonAdd(ShiftAt(SW), ShiftAt(SE)), ShiftAt(NW)),
                        ShiftAt(NE)), R(4))

AtCentroid == T = <<1, 2>> /\ U = <<1, 2>>

NonNegative == RLeq(R(0), degrees.lat) /\ RLeq(R(0), degrees.lon)

C6_TextbookBilinear ==
    (Called /\ StrictlySorted /\ Covered /\ NonNegative) =>
        /\ ret.kind = "Some"
        /\ ret.shift = Textbook
        /\ LET n_e == diagonal_weight(SW, degrees)
               s_w == diagonal_weight(NE, degrees)
           IN  /\ InUnit(n_e.lat) /\ InUnit(n_e.lon) /\ InUnit(s_w.lat) /\ InUnit(s_w.lon)
               /\ s_w.lat = RSub(One, n_e.lat)
               /\ s_w.lon = RSub(One, n_e.lon)
        /\ AtCentroid => ret.shift = Average

\* a query at the centroid of a covered cell whose corners differ
C6_Witness ==
    /\ Called /\ StrictlySorted /\ Covered /\ NonNegative
    /\ AtCentroid
    /\ ret.kind = "Some"
    /\ ShiftAt(SE) # ShiftAt(NW)
    /\ ret.shift # ShiftAt(SW)

(***************************************************************************)
(* C7.  On every table the compiler can emit and for every query, also one *)
(* whose cell index saturates at the 16-bit limits, Grid::bilinear returns *)
(* a shift or None: no index is out of bounds and no increment in          *)
(* Mesh3::north or Mesh3::east overflows.                                  *)
(***************************************************************************)
C7_NeverPanics ==
    Called => (ret.kind \in {"Some", "None"} /\ ~ret.overflow)

\* a query whose cell index saturates at i16::MAX on both axes, made of a
\* table that is not empty
C7_Witness ==
    /\ Called
    /\ dots # <<>>
    /\ SW = Mesh3(I16Max, I16Max)
    /\ ret.kind = "None"


(***************************************************************************)
(* Vocabulary of the properties of the datum objects                       *)
(***************************************************************************)
\* |lat| <= 90 and |lon| <= 180
InRange(d) ==
    /\ RLeq(R(-90), d.lat) /\ RLeq(d.lat, R(90))
    /\ RLeq(R(-180), d.lon) /\ RLeq(d.lon, R(180))

Swapped(d) == LatLon(d.lon, d.lat)

\* the datum object built by the constructor of `crs` has been converted
Converted(crs) == datum.res.ok /\ datum.res.crs = crs /\ converted # NoDatum

(***************************************************************************)
(* C11.  Tokyo::to_jgd2000 looks its own coordinate up in the grid.  When  *)
(* Grid::bilinear returns a shift, the result is the Jgd2000 of the        *)
(* coordinate plus that shift; when it returns None, the result is exactly *)
(* what Tokyo97::to_jgd2000 returns for the same coordinate.  The grid     *)
(* itself answers a miss with None: on a strictly sorted table it returns  *)
(* None exactly when one of the four corners is not stored.                *)
(***************************************************************************)
C11_MissFallsBackToTokyo97 ==
    Converted("Tokyo") =>
        /\ degrees = datum.arg
        /\ ret.kind \in {"Some", "None"}
        /\ ret.kind = "Some" =>
              converted = [ok |-> TRUE, crs |-> "Jgd2000",
                           degrees |-> LatLonAdd(datum.arg, ret.shift)]
        /\ ret.kind = "None" =>
              converted = Tokyo97_to_jgd2000([ok |-> TRUE, crs |-> "Tokyo97",
                                              degrees |-> datum.arg])
        /\ StrictlySorted => (ret.kind = "None" <=> ~Covered)

\* a Tokyo coordinate whose cell is stored without all of its neighbours is
\* converted by the closed formula
C11_Witness ==
    /\ Converted("Tokyo")
    /\ StrictlySorted
    /\ SW \in Cells /\ ~Covered
    /\ ret.kind = "None"
    /\ converted.ok /\ converted.crs = "Jgd2000"
    /\ converted.degrees # datum.arg

(***************************************************************************)
(* C12.  Jgd2000::to_jgd2011 returns the input coordinate unchanged when   *)
(* the grid has no parameter for it (Grid::bilinear returns None), and the *)
(* input plus the interpolated shift otherwise.                            *)
(***************************************************************************)
C12_MissLeavesCoordinateUnchanged ==
    Converted("Jgd2000") =>
        /\ degrees = datum.arg
        /\ ret.kind \in {"Some", "None"}
        /\ ret.kind = "None" =>
              converted = [ok |-> TRUE, crs |-> "Jgd2011", degrees |-> datum.arg]
        /\ ret.kind = "Some" =>
              converted = [ok |-> TRUE, crs |-> "Jgd2011",
                           degrees |-> LatLonAdd(datum.arg, ret.shift)]
        /\ StrictlySorted => (ret.kind = "None" <=> ~Covered)
        /\ (StrictlySorted /\ Covered /\ NonNegative) =>
              converted.degrees = LatLonAdd(datum.arg, Textbook)

\* a Jgd2000 coordinate in a covered cell is moved by a shift that is not
\* zero
C12_Witness ==
    /\ Converted("Jgd2000")
    /\ StrictlySorted /\ Covered
    /\ ret.kind = "Some"
    /\ ret.shift.lat # R(0) /\ ret.shift.lon # R(0)
    /\ converted.degrees # datum.arg

(***************************************************************************)
(* C13.  Tokyo::new and Tokyo97::new return Ok, with the coordinate as     *)
(* given, exactly when |lat| <= 90 and |lon| <= 180.  Otherwise they       *)
(* return the range error, whose possibly_reversed flag, and the suffix    *)
(* "; may be lat and lon reversed?" of its message, are set exactly when   *)
(* the coordinate is in range with latitude and longitude swapped.         *)
(***************************************************************************)
C13_ConstructorsValidateRange ==
    datum.ctor \in {"Tokyo", "Tokyo97"} =>
        /\ datum.res.ok <=> InRange(datum.arg)
        /\ datum.res.ok =>
              datum.res = [ok |-> TRUE, crs |-> datum.ctor, degrees |-> datum.arg]
        /\ ~datum.res.ok =>
              /\ datum.res.possibly_reversed <=> InRange(Swapped(datum.arg))
              /\ Display(datum.res) =
                    IF InRange(Swapped(datum.arg))
                    THEN <<"degrees out of range", "; may be lat and lon reversed?">>
                    ELSE <<"degrees out of range">>

\* Tokyo97::new of (135, 35) fails and says the pair may be reversed
C13_Witness ==
    /\ datum.ctor = "Tokyo97"
    /\ datum.arg = LatLon(R(135), R(35))
    /\ ~datum.res.ok
    /\ datum.res.possibly_reversed

(***************************************************************************)
(* C14.  Jgd2000::new rejects a coordinate out of range with the error     *)
(* "degrees out of range", so the coordinate Jgd2000::to_jgd2011 looks up  *)
(* in the grid is always in range.  The constructor of the code checks     *)
(* nothing and returns the object.                                         *)
(***************************************************************************)
C14_Jgd2000NewRejectsOutOfRange ==
    /\ datum.ctor = "Jgd2000" =>
          /\ datum.res.ok <=> InRange(datum.arg)
          /\ ~datum.res.ok => Display(datum.res)[1] = "degrees out of range"
    /\ Converted("Jgd2000") => InRange(degrees)


(***************************************************************************)
(* C15.  Grid::bilinear never modifies the table: in every interleaving of *)
(* the steps of concurrent calls no step changes the table, and every call *)
(* that has returned holds a result the same call returns when it runs     *)
(* alone on that table.                                                    *)
(***************************************************************************)
ReturnsAsAlone ==
    \A r \in DOMAIN readers :
        readers[r].pc = "returned" =>
            readers[r].out \in bilinear(dots, readers[r].degrees, readers[r].overflow_checks)

C15_ReadersDoNotInterfere == []ReturnsAsAlone /\ [][dots' = dots]_vars

\* one call has returned a shift while another, of another coordinate, is
\* between its lookups
C15_Witness ==
    \E a, b \in DOMAIN readers :
        /\ a # b
        /\ readers[a].pc = "returned"
        /\ readers[a].out.kind = "Some"
        /\ readers[b].pc \in {"se", "nw", "ne"}
        /\ readers[b].degrees # readers[a].degrees


(***************************************************************************)
(* C16.  On a strictly sorted table the lookups of Grid::bilinear (binary  *)
(* search from index 0, the next index, binary search of the rest, the     *)
(* next index) find the entries that four binary searches of the whole     *)
(* table find: the call returns a shift exactly when all four searches     *)
(* succeed, and then the weighted mean of the four entries they find; it   *)
(* returns None otherwise.  When both are stored, the south-east entry is  *)
(* at the south-west index + 1 and the north-east entry at the north-west  *)
(* index + 1.                                                              *)
(***************************************************************************)
\* the index a binary search of the whole table gives for a cell, -1 if the
\* cell is not stored
WholeTableSearch(c) == Bisect(dots, c, 0, Len(dots))

C16_SameAsFourWholeTableSearches ==
    (Called /\ StrictlySorted) =>
        LET sw == WholeTableSearch(SW)
            se == WholeTableSearch(SE)
            nw == WholeTableSearch(NW)
            ne == WholeTableSearch(NE)
            all == sw # -1 /\ se # -1 /\ nw # -1 /\ ne # -1
        IN  /\ ret.kind = "Some" <=> all
            /\ ret.kind = "None" <=> ~all
            /\ all => ret.shift =
                        weighted_mean(At(dots, sw).shift, At(dots, se).shift,
                                      At(dots, nw).shift, At(dots, ne).shift,
                                      SW, NE, degrees)
            /\ (sw # -1 /\ se # -1) => se = sw + 1
            /\ (nw # -1 /\ ne # -1) => ne = nw + 1
            /\ all => sw < nw

\* a shift is returned from a table in which other cells lie between the
\* south-east and the north-west corner
C16_Witness ==
    /\ Called /\ StrictlySorted /\ Covered
    /\ ret.kind = "Some"
    /\ WholeTableSearch(NW) > WholeTableSearch(SE) + 1
    /\ WholeTableSearch(SW) > 0

(***************************************************************************)
(* C17.  The cell index the compiler stores for a mesh code is the index   *)
(* Mesh3::floor computes for the south-west corner of that mesh, on both   *)
(* axes.  The corner of the mesh code (1st-level code = latitude x 1.5 and *)
(* longitude - 100; 2nd level 5' by 7.5'; 3rd level 30" by 45") lies at    *)
(* latitude mesh1/1.5 + mesh2/12 + mesh3/120 and longitude                 *)
(* 100 + mesh1 + mesh2/8 + mesh3/80 degrees.  The compiler does not add    *)
(* the 100 degrees, so its longitude index is 8000 short.                  *)
(***************************************************************************)
\* the south-west corner, in degrees, of the mesh code a line begins with
SouthWestCorner(text) ==
    LET mesh1_lat == FieldValue(SubSeq(text, 1, 2))
        mesh1_lon == FieldValue(SubSeq(text, 3, 4))
        mesh2_lat == FieldValue(SubSeq(text, 5, 5))
        mesh2_lon == FieldValue(SubSeq(text, 6, 6))
        mesh3_lat == FieldValue(SubSeq(text, 7, 7))
        mesh3_lon == FieldValue(SubSeq(text, 8, 8))
    IN  LatLon(RAdd(RAdd(RDiv(R(mesh1_lat), <<3, 2>>), RDiv(R(mesh2_lat), R(12))),
                    RDiv(R(mesh3_lat), R(120))),
               RAdd(RAdd(R(100 + mesh1_lon), RDiv(R(mesh2_lon), R(8))),
                    RDiv(R(mesh3_lon), R(80))))

C17_StoredCellIsFloorOfCorner ==
    pc = "collect" =>
        \A k \in Consumed :
            \E r \in records :
                /\ Shift(r) = Shift(from_str(Text(k)).val)
                /\ r[1] = floor(SouthWestCorner(Text(k))).lat
                /\ r[2] = floor(SouthWestCorner(Text(k))).lon

(***************************************************************************)
(* C18.  The integer the compiler stores for a correction field is the     *)
(* correction in micro-arcseconds, the field's value in arc seconds times  *)
(* 1,000,000, and MicroSecond::to_degree turns it back into the field's    *)
(* value over 3600 degrees.  The compiler joins the integer part and the   *)
(* five decimals, which is the value times 100,000.                        *)
(***************************************************************************)
\* a field of five decimals, read in micro-arcseconds
MicroArcseconds(text, from) == SignedField(text, from) * 10

\* the same field in degrees: arc seconds over 3600
FieldDegrees(text, from) ==
    RDiv(RDiv(R(SignedField(text, from)), R(100000)), R(3600))

C18_StoredInMicroArcseconds ==
    pc = "collect" =>
        \A k \in Consumed :
            \E r \in records :
                /\ Cell(r) = Cell(from_str(Text(k)).val)
                /\ r[3] = MicroArcseconds(Text(k), 9)
                /\ r[4] = MicroArcseconds(Text(k), 19)
                /\ MicroSecond_to_degree([lat |-> r[3], lon |-> r[4]])
                      = LatLon(FieldDegrees(Text(k), 9), FieldDegrees(Text(k), 19))

(***************************************************************************)
(* C19.  For every coordinate the constructors accept (|lat| <= 90,        *)
(* |lon| <= 180, negative ones too) Mesh3::floor gives the cell that holds *)
(* the coordinate: cell.to_degree() <= coordinate < north-east             *)
(* cell.to_degree() on both axes, and the four weights of diagonal_weight  *)
(* lie in [0, 1].  The cast of floor truncates towards zero, so a negative *)
(* coordinate inside a cell gets the cell north or east of its own.        *)
(***************************************************************************)
Below(a, b) == RLeq(a, b) /\ a # b

C19_FloorGivesTheContainingCell ==
    (Called /\ InRange(degrees)) =>
        LET lo == Mesh3_to_degree(SW)
            hi == Mesh3_to_degree(NE)
            n_e == diagonal_weight(SW, degrees)
            s_w == diagonal_weight(NE, degrees)
        IN  /\ RLeq(lo.lat, degrees.lat) /\ Below(degrees.lat, hi.lat)
            /\ RLeq(lo.lon, degrees.lon) /\ Below(degrees.lon, hi.lon)
            /\ InUnit(n_e.lat) /\ InUnit(n_e.lon)
            /\ InUnit(s_w.lat) /\ InUnit(s_w.lon)

====
